---- MODULE Spec2Model ----
(***************************************************************************)
(* Model of src/main.py: the MedlinePlus -> Wikipedia lookup pipeline      *)
(* (get_medlineplus_definition, get_wikipedia_definition) and the          *)
(* MedicalDictApp handlers that run it: search_event on the Tk main        *)
(* thread, perform_search on a background thread, and                      *)
(* update_gui_with_result, scheduled with after(0, ...) back on the main   *)
(* thread.                                                                 *)
(*                                                                         *)
(* A Python str is a sequence of tokens: a token is one character or one   *)
(* literal chunk of a message.  A value that may be None is a record       *)
(* [none, s].                                                              *)
(***************************************************************************)
EXTENDS Integers, Sequences, FiniteSets, TLC

VARIABLES
    entryText,      \* content of search_entry
    entry,          \* state of search_entry: "normal" | "disabled"
    button,         \* search_button: [state, text]
    resultText,     \* content of result_textbox
    workers,        \* one record per background thread of perform_search
    afterQueue,     \* callbacks scheduled with self.after(0, ...), in order
    delivered,      \* per thread: results delivered for its current search
    fmtIn,          \* input of the disambiguation-message harness
    fmtOut          \* output of the disambiguation-message harness

vars == <<entryText, entry, button, resultText, workers, afterQueue,
          delivered, fmtIn, fmtOut>>

display == <<entry, button, resultText>>

(***************************************************************************)
(* Bounds                                                                  *)
(***************************************************************************)
MaxWorkers == 2
MaxOptions == 5

Workers == 1..MaxWorkers

(***************************************************************************)
(* Python values                                                           *)
(***************************************************************************)
None == [none |-> TRUE, s |-> <<>>]
Str(s) == [none |-> FALSE, s |-> s]

Whitespace == {" ", "\n"}

RECURSIVE lstrip(_)
lstrip(s) ==
    IF s # <<>> /\ Head(s) \in Whitespace THEN lstrip(Tail(s)) ELSE s

RECURSIVE rstrip(_)
rstrip(s) ==
    IF s # <<>> /\ s[Len(s)] \in Whitespace
    THEN rstrip(SubSeq(s, 1, Len(s) - 1))
    ELSE s

\* str.strip()
strip(s) == rstrip(lstrip(s))

\* sep.join(parts), parts a sequence of strs
RECURSIVE join(_, _)
join(sep, parts) ==
    IF parts = <<>> THEN <<>>
    ELSE IF Len(parts) = 1 THEN parts[1]
    ELSE parts[1] \o sep \o join(sep, Tail(parts))

\* seq[:n]
Slice(seq, n) == SubSeq(seq, 1, IF Len(seq) < n THEN Len(seq) ELSE n)

(***************************************************************************)
(* HTML cleaning of the FullSummary field (BeautifulSoup, html.parser)     *)
(***************************************************************************)
Tags == {"<p>", "</p>", "<ul>", "</ul>", "<li>", "</li>"}

BULLET == <<"\n", "*", " ">>

\* The NavigableStrings of the parsed fragment, in document order, after
\* li.insert(0, BULLET) for every <li>: a tag ends the running string, and
\* an <li> start tag is followed by the inserted bullet string.
RECURSIVE Strings(_, _)
Strings(html, cur) ==
    IF html = <<>> THEN (IF cur = <<>> THEN <<>> ELSE <<cur>>)
    ELSE IF Head(html) \in Tags
         THEN (IF cur = <<>> THEN <<>> ELSE <<cur>>)
              \o (IF Head(html) = "<li>" THEN <<BULLET>> ELSE <<>>)
              \o Strings(Tail(html), <<>>)
         ELSE Strings(Tail(html), Append(cur, Head(html)))

\* The stripped strings that are not empty (get_text(strip=True))
RECURSIVE StrippedStrings(_)
StrippedStrings(strs) ==
    IF strs = <<>> THEN <<>>
    ELSE (IF strip(Head(strs)) = <<>> THEN <<>> ELSE <<strip(Head(strs))>>)
         \o StrippedStrings(Tail(strs))

\* soup.get_text(separator=sep, strip=True)
get_text(html, sep) == join(sep, StrippedStrings(Strings(html, <<>>)))

(***************************************************************************)
(* The environment: what the two services answer                           *)
(***************************************************************************)
\* Outcome of requests.get + raise_for_status + ET.fromstring + root.find:
\*   "transport"  requests.exceptions.RequestException (connection error,
\*                timeout, non-2xx status)
\*   "malformed"  ET.ParseError
\*   "other"      any other exception
\*   "doc"        a parsed document; hasField says whether root.find
\*                returned an element, text is that element's text
\*                (<<>> for None or '')
Response(kind, hasField, text) ==
    [kind |-> kind, hasField |-> hasField, text |-> text]

FieldTexts == { <<>>, <<" ">>, <<"<p>", "</p>">>, <<" ", "<li>", "A", "</li>">> }

PrimaryResponses ==
    { Response(k, FALSE, <<>>) : k \in {"transport", "malformed", "other"} }
    \cup { Response("doc", FALSE, <<>>) }
    \cup { Response("doc", TRUE, t) : t \in FieldTexts }

\* Outcome of wikipedia.summary:
\*   "summary"   the summary text
\*   "page"      wikipedia.exceptions.PageError
\*   "disambig"  wikipedia.exceptions.DisambiguationError with e.options
\*   "other"     any other exception
Outcome(kind, summary, options) ==
    [kind |-> kind, summary |-> summary, options |-> options]

TitlePool == {"X1", "X2", "X3"}

ManyOptions == <<"X1", "X2", "X3", "X4", "X5", "X6">>

WikiOutcomes ==
    { Outcome("summary", <<"S">>, <<>>),
      Outcome("page", <<>>, <<>>),
      Outcome("disambig", <<>>, ManyOptions),
      Outcome("other", <<>>, <<>>) }

NoCall == Outcome("nocall", <<>>, <<>>)
NoResponse == Response("nocall", FALSE, <<>>)

(***************************************************************************)
(* get_medlineplus_definition                                              *)
(***************************************************************************)
MEDLINE_SOURCE == "Source: MedlinePlus (U.S. National Library of Medicine)\n\n"
MEDLINE_UNAVAILABLE ==
    "MedlinePlus service is currently unavailable. Please check your internet connection."
MEDLINE_PARSE == "Failed to parse the response from MedlinePlus."
MEDLINE_UNEXPECTED == "An unexpected error occurred with the MedlinePlus service: "

\* Mutant: a malformed document is reported as "no entry".
get_medlineplus_definition_parse_none(resp) ==
    IF resp.kind = "transport" THEN Str(<<MEDLINE_UNAVAILABLE>>)
    ELSE IF resp.kind = "malformed" THEN None
    ELSE IF resp.kind = "other" THEN Str(<<MEDLINE_UNEXPECTED, "e">>)
    ELSE IF resp.hasField /\ resp.text # <<>>
         THEN Str(<<MEDLINE_SOURCE>> \o get_text(strip(resp.text), <<" ">>))
         ELSE None

\* Mutant: the cleaned text is returned without the source line.
get_medlineplus_definition_no_source(resp) ==
    IF resp.kind = "transport" THEN Str(<<MEDLINE_UNAVAILABLE>>)
    ELSE IF resp.kind = "malformed" THEN Str(<<MEDLINE_PARSE>>)
    ELSE IF resp.kind = "other" THEN Str(<<MEDLINE_UNEXPECTED, "e">>)
    ELSE IF resp.hasField /\ resp.text # <<>>
         THEN Str(get_text(strip(resp.text), <<" ">>))
         ELSE None

get_medlineplus_definition(resp) ==
    IF resp.kind = "transport" THEN Str(<<MEDLINE_UNAVAILABLE>>)
    ELSE IF resp.kind = "malformed" THEN Str(<<MEDLINE_PARSE>>)
    ELSE IF resp.kind = "other" THEN Str(<<MEDLINE_UNEXPECTED, "e">>)
    ELSE IF resp.hasField /\ resp.text # <<>>
         THEN Str(<<MEDLINE_SOURCE>> \o get_text(strip(resp.text), <<" ">>))
         ELSE None

(***************************************************************************)
(* get_wikipedia_definition                                                *)
(***************************************************************************)
WIKI_SOURCE == "Source: Wikipedia\n\n"
WIKI_AMBIGUOUS ==
    "' is ambiguous on Wikipedia. Please be more specific. Some options might be: "
WIKI_NOT_FOUND == "' could not be found in MedlinePlus or Wikipedia."
WIKI_ERROR == "An error occurred while fetching from Wikipedia: "
OPTION_LIMIT == 4

\* Mutant: one candidate more is listed.
OptionsShown_one_more(options) == Slice(options, OPTION_LIMIT + 1)

\* e.options[:4]
OptionsShown(options) == Slice(options, OPTION_LIMIT)

get_wikipedia_definition(term, out) ==
    IF out.kind = "summary" THEN Str(<<WIKI_SOURCE>> \o out.summary)
    ELSE IF out.kind = "page"
         THEN Str(<<"Sorry, the term '">> \o term
                  \o <<WIKI_NOT_FOUND>>)
    ELSE IF out.kind = "disambig"
         THEN Str(<<"The term '">> \o term
                  \o <<WIKI_AMBIGUOUS>>
                  \o join(<<", ">>, [i \in DOMAIN OptionsShown(out.options) |->
                                        <<OptionsShown(out.options)[i]>>])
                  \o <<"...">>)
    ELSE Str(<<WIKI_ERROR, "e">>)

(***************************************************************************)
(* MedicalDictApp                                                          *)
(***************************************************************************)
\* What the user can have typed into search_entry
Terms == { <<>>, <<" ">>, <<"d">> }

\* A background thread of perform_search.  pc:
\*   "idle"      no thread
\*   "start"     started, get_medlineplus_definition not yet returned
\*   "fallback"  definition is None, get_wikipedia_definition not yet returned
\*   "posted"    self.after(0, ...) done and the thread over, callback not
\*               yet run; the record is kept until the callback has run
\* primaryResp/primaryRet and fallbackResp/fallbackRet record what each
\* client was answered and what it returned; primaryCalls and fallbackCalls
\* count the calls of the search.
IdleWorker ==
    [pc |-> "idle", term |-> <<>>,
     primaryResp |-> NoResponse, primaryRet |-> None, primaryCalls |-> 0,
     fallbackResp |-> NoCall, fallbackRet |-> None, fallbackCalls |-> 0]

CALLBACK == "update_gui_with_result"

InitApp ==
    /\ entryText = <<>>
    /\ entry = "normal"
    /\ button = [state |-> "normal", text |-> "Search"]
    /\ resultText = <<>>
    /\ workers = [w \in Workers |-> IdleWorker]
    /\ afterQueue = <<>>
    /\ delivered = [w \in Workers |-> 0]

Init ==
    /\ InitApp
    /\ fmtIn = <<>>
    /\ fmtOut = None

\* threading.Thread(target=self.perform_search, args=(term,)).start()
StartThread(w, term) ==
    /\ workers[w].pc = "idle"
    /\ \A v \in Workers : v < w => workers[v].pc # "idle"
    /\ workers' = [workers EXCEPT ![w] = [IdleWorker EXCEPT !.pc = "start", !.term = term]]
    /\ delivered' = [delivered EXCEPT ![w] = 0]

\* not term
EmptyTerm(term) == term = <<>>

search_event ==
    LET term == entryText IN
    IF EmptyTerm(term)
    THEN /\ resultText' = <<"Please enter a term to search.">>
         /\ UNCHANGED <<entry, button, workers, delivered>>
    ELSE /\ button' = [state |-> "disabled", text |-> "Searching..."]
         /\ entry' = "disabled"
         /\ resultText' = <<"Searching for '">> \o term \o <<"'...">>
         /\ \E w \in Workers : StartThread(w, term)

\* The user edits the entry; a disabled entry cannot be edited.
TypeText ==
    /\ entry = "normal"
    /\ \E t \in Terms : t # entryText /\ entryText' = t
    /\ UNCHANGED <<entry, button, resultText, workers, afterQueue, delivered,
                   fmtIn, fmtOut>>

\* search_button's command: a disabled button does not run it.
ClickSearch ==
    /\ button.state = "normal"
    /\ search_event
    /\ UNCHANGED <<entryText, afterQueue, fmtIn, fmtOut>>

\* The <Return> binding of search_entry: an event binding runs whatever the
\* state option of the widget is.
PressReturn ==
    /\ search_event
    /\ UNCHANGED <<entryText, afterQueue, fmtIn, fmtOut>>

\* Mutant: the callback is run by the calling thread.
after_run_now(w, definition) ==
    /\ resultText' = definition.s
    /\ button' = [state |-> "normal", text |-> "Search"]
    /\ entry' = "normal"
    /\ UNCHANGED afterQueue

\* Mutant: an error message is not handed over.
after_drop_errors(w, definition) ==
    /\ afterQueue' = IF Head(definition.s) \in {MEDLINE_SOURCE, WIKI_SOURCE}
                     THEN Append(afterQueue, [w |-> w, func |-> CALLBACK, arg |-> definition])
                     ELSE afterQueue
    /\ UNCHANGED display

\* self.after(0, self.update_gui_with_result, definition)
after(w, definition) ==
    /\ afterQueue' = Append(afterQueue, [w |-> w, func |-> CALLBACK, arg |-> definition])
    /\ UNCHANGED display

\* Mutant: an error of the primary client falls back as well.
NeedsFallback_on_error(definition) ==
    definition.none \/ Head(definition.s) # MEDLINE_SOURCE

\* definition is None
NeedsFallback(definition) == definition = None

\* Mutant: the primary client's value is kept after the fallback call.
FinalDefinition_keep_primary(primary, fallback) == primary

\* definition = get_wikipedia_definition(term)
FinalDefinition(primary, fallback) == fallback

\* perform_search up to the return of get_medlineplus_definition, and, when
\* the definition is not None, on to self.after
PerformSearchPrimary(w) ==
    /\ workers[w].pc = "start"
    /\ \E resp \in PrimaryResponses :
         LET definition == get_medlineplus_definition(resp) IN
         /\ workers' = [workers EXCEPT
                ![w].primaryResp = resp,
                ![w].primaryRet = definition,
                ![w].primaryCalls = @ + 1,
                ![w].pc = IF NeedsFallback(definition) THEN "fallback" ELSE "posted"]
         /\ IF NeedsFallback(definition)
            THEN UNCHANGED <<afterQueue, display>>
            ELSE after(w, definition)
    /\ UNCHANGED <<entryText, delivered, fmtIn, fmtOut>>

\* perform_search from the call of get_wikipedia_definition to self.after
PerformSearchFallback(w) ==
    /\ workers[w].pc = "fallback"
    /\ \E out \in WikiOutcomes :
         LET fallback == get_wikipedia_definition(workers[w].term, out)
             definition == FinalDefinition(workers[w].primaryRet, fallback) IN
         /\ workers' = [workers EXCEPT
                ![w].fallbackResp = out,
                ![w].fallbackRet = fallback,
                ![w].fallbackCalls = @ + 1,
                ![w].pc = "posted"]
         /\ after(w, definition)
    /\ UNCHANGED <<entryText, delivered, fmtIn, fmtOut>>

\* update_gui_with_result
update_gui_with_result(definition) ==
    /\ resultText' = definition.s
    /\ button' = [state |-> "normal", text |-> "Search"]
    /\ entry' = "normal"

\* The main loop runs the oldest scheduled callback.
RunCallback ==
    /\ afterQueue # <<>>
    /\ LET cb == Head(afterQueue) IN
         /\ update_gui_with_result(cb.arg)
         /\ workers' = [workers EXCEPT ![cb.w] = IdleWorker]
         /\ delivered' = [delivered EXCEPT ![cb.w] = @ + 1]
    /\ afterQueue' = Tail(afterQueue)
    /\ UNCHANGED <<entryText, fmtIn, fmtOut>>

Next ==
    \/ TypeText
    \/ ClickSearch
    \/ PressReturn
    \/ \E w \in Workers : PerformSearchPrimary(w)
    \/ \E w \in Workers : PerformSearchFallback(w)
    \/ RunCallback

Spec == Init /\ [][Next]_vars

\* Every started thread is scheduled, every network call returns, and the
\* main loop keeps running callbacks.
FairSpec ==
    /\ Spec
    /\ \A w \in Workers : WF_vars(PerformSearchPrimary(w))
    /\ \A w \in Workers : WF_vars(PerformSearchFallback(w))
    /\ WF_vars(RunCallback)

(***************************************************************************)
(* The disambiguation message on its own: get_wikipedia_definition applied *)
(* to every candidate list of at most MaxOptions titles.                   *)
(***************************************************************************)
OptionLists == UNION { [1..n -> TitlePool] : n \in 0..MaxOptions }

InitFmt ==
    /\ InitApp
    /\ fmtIn \in OptionLists
    /\ fmtOut = None

FormatAmbiguous ==
    /\ fmtOut = None
    /\ \E term \in Terms \ {<<>>} :
         fmtOut' = get_wikipedia_definition(term, Outcome("disambig", <<>>, fmtIn))
    /\ UNCHANGED <<entryText, entry, button, resultText, workers, afterQueue,
                   delivered, fmtIn>>

NextFmt == FormatAmbiguous

SpecFmt == InitFmt /\ [][NextFmt]_vars

(***************************************************************************)
(* Properties                                                              *)
(***************************************************************************)
InFlight(w) == workers[w].pc # "idle"

\* The callbacks scheduled for thread w
CallbacksOf(w) == { i \in DOMAIN afterQueue : afterQueue[i].w = w }

PrimaryErrorKinds == {"transport", "malformed", "other"}
FallbackErrorKinds == {"page", "disambig", "other"}

PrimaryErrorResults ==
    { Str(<<MEDLINE_UNAVAILABLE>>), Str(<<MEDLINE_PARSE>>),
      Str(<<MEDLINE_UNEXPECTED, "e">>) }

FoundByMedlinePlus(definition) ==
    /\ ~definition.none
    /\ definition.s # <<>>
    /\ Head(definition.s) = MEDLINE_SOURCE

IsBlank(text) == \A i \in DOMAIN text : text[i] \in Whitespace

\* C1: when the primary client ends in an error, the value handed to the
\* foreground is that error result, and the fallback client is not called
\* in that search.
C1_PrimaryErrorIsFinal ==
    \A w \in Workers :
        workers[w].primaryResp.kind \in PrimaryErrorKinds =>
            /\ workers[w].pc = "posted"
            /\ workers[w].fallbackCalls = 0
            /\ workers[w].primaryRet \in PrimaryErrorResults
            /\ \A i \in CallbacksOf(w) : afterQueue[i].arg = workers[w].primaryRet
            /\ CallbacksOf(w) # {}

C1_Witness ==
    \E w \in Workers :
        /\ workers[w].primaryResp.kind = "transport"
        /\ workers[w].pc = "posted"

\* C2 as stated: whenever the response contains a full-summary field, the
\* result is a Found result of MedlinePlus and the fallback client is not
\* called.
C2_FieldPresentFound ==
    \A w \in Workers :
        (workers[w].primaryResp.kind = "doc" /\ workers[w].primaryResp.hasField) =>
            /\ workers[w].pc = "posted"
            /\ workers[w].fallbackCalls = 0
            /\ \A i \in CallbacksOf(w) : FoundByMedlinePlus(afterQueue[i].arg)

\* C2 amended: whenever the response contains a full-summary field whose
\* text is not blank, the result is a Found result of MedlinePlus and the
\* fallback client is not called.
C2_FieldNonBlankFound ==
    \A w \in Workers :
        ( /\ workers[w].primaryResp.kind = "doc"
          /\ workers[w].primaryResp.hasField
          /\ ~IsBlank(workers[w].primaryResp.text) ) =>
            /\ workers[w].pc = "posted"
            /\ workers[w].fallbackCalls = 0
            /\ CallbacksOf(w) # {}
            /\ \A i \in CallbacksOf(w) : FoundByMedlinePlus(afterQueue[i].arg)

C2_Witness ==
    \E w \in Workers :
        /\ workers[w].primaryResp.kind = "doc"
        /\ workers[w].primaryResp.hasField
        /\ ~IsBlank(workers[w].primaryResp.text)
        /\ workers[w].pc = "posted"

\* C3: when the primary client returns None, the fallback client is called
\* exactly once, after the primary call has returned, the value handed over
\* is the value the fallback client returned, and no client is called twice
\* in one search.
C3_FallbackOnceVerbatim ==
    \A w \in Workers :
        /\ workers[w].primaryCalls <= 1
        /\ workers[w].fallbackCalls <= 1
        /\ workers[w].fallbackCalls = 1 =>
              workers[w].primaryCalls = 1 /\ workers[w].primaryRet = None
        /\ (workers[w].primaryCalls = 1 /\ workers[w].primaryRet = None) =>
              \/ workers[w].pc = "fallback" /\ workers[w].fallbackCalls = 0
                                            /\ CallbacksOf(w) = {}
              \/ /\ workers[w].pc = "posted"
                 /\ workers[w].fallbackCalls = 1
                 /\ Cardinality(CallbacksOf(w)) = 1
                 /\ \A i \in CallbacksOf(w) :
                        /\ afterQueue[i].arg = workers[w].fallbackRet
                        /\ ~afterQueue[i].arg.none

C3_Witness ==
    \E w \in Workers :
        /\ workers[w].primaryRet = None
        /\ workers[w].fallbackCalls = 1
        /\ workers[w].fallbackResp.kind = "summary"
        /\ workers[w].pc = "posted"

\* C4: a search for a blank or whitespace-only input is rejected: no thread
\* is started for it, so no client is called for it.
C4_BlankInputRejected ==
    \A w \in Workers : InFlight(w) => ~IsBlank(workers[w].term)

\* C5: at most one search is in flight at any time.
C5_AtMostOneInFlight ==
    Cardinality({ w \in Workers : InFlight(w) }) <= 1

\* C6: every accepted search eventually has exactly one result delivered,
\* and on delivery the input controls are enabled again.
C6_EventuallyDelivered ==
    /\ \A w \in Workers :
          (workers[w].pc = "start") ~>
              ( /\ workers[w].pc = "idle"
                /\ delivered[w] = 1
                /\ entry = "normal"
                /\ button.state = "normal" )
    /\ [](\A w \in Workers : delivered[w] <= 1 /\ Cardinality(CallbacksOf(w)) <= 1)

C6_Witness ==
    \E w \in Workers :
        /\ delivered[w] = 1
        /\ workers[w].pc = "idle"
        /\ entry = "normal"
        /\ button.state = "normal"

\* A step of the background thread w
WorkerStep(w) ==
    /\ workers[w].pc \in {"start", "fallback"}
    /\ workers'[w].pc # workers[w].pc

\* C7: no step of a background thread changes the display state (result
\* text, state of the controls); the thread only schedules the callback
\* with its one result.
C7_WorkerNeverWritesDisplay ==
    [][ \A w \in Workers :
           WorkerStep(w) =>
              /\ UNCHANGED display
              /\ workers'[w].pc = "posted" => Len(afterQueue') = Len(afterQueue) + 1 ]_vars

C7_Witness ==
    \E w \in Workers :
        /\ workers[w].pc = "posted"
        /\ CallbacksOf(w) # {}
        /\ entry = "disabled"
        /\ Head(resultText) = "Searching for '"

\* C8: every failure of a client is returned as an error message, never
\* raised and never None: a transport failure as "unavailable", a malformed
\* document as "failed to parse"; an error of the primary client does not
\* lead to the fallback call.
C8_FailuresBecomeMessages ==
    \A w \in Workers :
        /\ workers[w].primaryResp.kind = "transport" =>
              workers[w].primaryRet = Str(<<MEDLINE_UNAVAILABLE>>)
        /\ workers[w].primaryResp.kind = "malformed" =>
              workers[w].primaryRet = Str(<<MEDLINE_PARSE>>)
        /\ workers[w].primaryResp.kind = "other" =>
              workers[w].primaryRet = Str(<<MEDLINE_UNEXPECTED, "e">>)
        /\ workers[w].primaryResp.kind \in PrimaryErrorKinds =>
              workers[w].pc = "posted" /\ workers[w].fallbackCalls = 0
        /\ workers[w].fallbackResp.kind \in FallbackErrorKinds =>
              /\ ~workers[w].fallbackRet.none
              /\ workers[w].fallbackRet.s # <<>>
              /\ Head(workers[w].fallbackRet.s) # WIKI_SOURCE
              /\ workers[w].pc = "posted"

C8_Witness ==
    \E w, v \in Workers :
        /\ workers[w].primaryResp.kind = "malformed"
        /\ workers[v].fallbackResp.kind = "disambig"

\* C9: a well-formed document whose full-summary field is absent, empty or
\* only whitespace makes the primary client return None, and a Found result
\* of the primary client never carries an empty definition text.
C9_EmptyFieldIsNotFound ==
    \A w \in Workers :
        workers[w].primaryResp.kind = "doc" =>
            /\ (~workers[w].primaryResp.hasField \/ IsBlank(workers[w].primaryResp.text))
                  => workers[w].primaryRet = None
            /\ FoundByMedlinePlus(workers[w].primaryRet)
                  => Tail(workers[w].primaryRet.s) # <<>>

\* The titles listed in a disambiguation message: the tokens between the
\* introduction and the final token, without the separators
ListedPart(msg) ==
    LET p == CHOOSE i \in DOMAIN msg : msg[i] = WIKI_AMBIGUOUS
    IN  SubSeq(msg, p + 1, Len(msg) - 1)

Min(a, b) == IF a < b THEN a ELSE b

\* C10: for a candidate list of any length n the message lists exactly the
\* first min(n, 4) titles, in order, separated by ", " and followed by
\* "...", and no title that occurs only from position 5 on.
C10_FirstFourListed ==
    ~fmtOut.none =>
        LET msg == fmtOut.s
            listed == ListedPart(msg)
            k == Min(Len(fmtIn), OPTION_LIMIT)
        IN  /\ msg[Len(msg)] = "..."
            /\ Len(listed) = (IF k = 0 THEN 0 ELSE 2 * k - 1)
            /\ \A i \in 1..k : listed[2 * i - 1] = fmtIn[i]
            /\ \A i \in 1..(k - 1) : listed[2 * i] = ", "
            /\ \A j \in DOMAIN fmtIn :
                  (j > OPTION_LIMIT /\ \A i \in 1..k : fmtIn[i] # fmtIn[j])
                      => \A i \in DOMAIN msg : msg[i] # fmtIn[j]

C10_Witness ==
    /\ ~fmtOut.none
    /\ Len(fmtIn) > OPTION_LIMIT
    /\ \A i \in 1..OPTION_LIMIT : fmtIn[i] # fmtIn[OPTION_LIMIT + 1]

====
